---- MODULE Spec2Model ----
(***************************************************************************)
(* A model of server.js: an Express process that keeps one Telegram client, *)
(* one session string, the remembered API credentials, a phone -> hash map  *)
(* and one pending QR login in module-level variables, and serves eight     *)
(* endpoints.  Node runs the handlers on one thread: a handler runs         *)
(* atomically from its arrival to its first await, and from one await to    *)
(* the next; other requests' segments interleave at the awaits.  Each       *)
(* action below is one such segment of one handler.                         *)
(***************************************************************************)
EXTENDS Integers, Sequences, FiniteSets, TLC

\* ----------------------------------------------------------------- bounds
\* Requests that may be in flight (suspended at an await) at once.
NumSlots == 2
\* Client instances createClient may connect successfully in one run.
MaxClients == 2
\* QR login tokens qrLogin() may issue in one run.
MaxQr == 2
\* Files one /send request may carry.
MaxFiles == 2

\* -------------------------------------------------------------- JS values
\* apiId arrives in a JSON body: absent, a number, or a string of digits.
Undefined == [t |-> "undefined", n |-> 0, s |-> <<>>]
NullV == [t |-> "null", n |-> 0, s |-> <<>>]
NaNV == [t |-> "NaN", n |-> 0, s |-> <<>>]
NumV(k) == [t |-> "number", n |-> k, s |-> <<>>]
StrV(d) == [t |-> "string", n |-> 0, s |-> d]

\* JavaScript truthiness, as `!apiId` reads it.
Truthy(v) ==
  CASE v.t = "number" -> v.n # 0
    [] v.t = "string" -> v.s # <<>>
    [] OTHER -> FALSE

\* The decimal value of a string of digits ("" is 0).
RECURSIVE ParseDecimal(_)
ParseDecimal(d) ==
  IF d = <<>> THEN 0
  ELSE 10 * ParseDecimal(SubSeq(d, 1, Len(d) - 1)) + d[Len(d)]

\* Number(v): a number is itself, a digit string its decimal value, null 0.
ToNumber(v) ==
  CASE v.t = "number" -> NumV(v.n)
    [] v.t = "string" -> NumV(ParseDecimal(v.s))
    [] v.t = "null" -> NumV(0)
    [] OTHER -> NaNV

OneApiId == {Undefined, NumV(1), StrV(<<1>>)}
TwoApiIds == OneApiId \cup {NumV(2)}
\* "" stands for an absent (or empty) string field of the body.
ApiHashInputs == {"", "h1"}
Phones == {"p1", "constructor"}
PhoneInputs == Phones \cup {""}
CodeInputs == {"", "c1"}
ChannelInputs == {"", "ch1"}

\* phoneState is the object literal {}: a key it does not own is looked up on
\* Object.prototype.
ObjectPrototypeKeys == {"constructor"}
AbsentProp == "absent"
NullHash == "null"
HashTruthy(h) == h \notin {"", NullHash, "undefined"}

\* What sendCodeRequest / sendCode may resolve with: the hash under one of the
\* field names, under none, or under two.
NoField == [phoneCodeHash |-> "", phone_code_hash |-> "", und |-> ""]
CodeResults ==
  { NoField,
    [NoField EXCEPT !.phoneCodeHash = "h"],
    [NoField EXCEPT !.phone_code_hash = "h"],
    [NoField EXCEPT !.und = "h"],
    [NoField EXCEPT !.phoneCodeHash = "h", !.phone_code_hash = "h"] }

\* Line 79: the first truthy of the three field names, else null.
ExtractHash(result) ==
  IF result.phoneCodeHash # "" THEN result.phoneCodeHash
  ELSE IF result.phone_code_hash # "" THEN result.phone_code_hash
  ELSE IF result.und # "" THEN result.und
  ELSE NullHash

\* The typeof tests of lines 72, 105 and 141 depend on the library installed.
\* Three builds take every branch of them: one with the Telethon-style methods
\* the first branches are written for, gramjs (sendCode, but no sendCodeRequest,
\* signIn or qrLogin), and one with none of the four.
LibBuilds ==
  { [sendCodeRequest |-> TRUE, sendCode |-> FALSE, signIn |-> TRUE, qrLogin |-> TRUE],
    [sendCodeRequest |-> FALSE, sendCode |-> TRUE, signIn |-> FALSE, qrLogin |-> FALSE],
    [sendCodeRequest |-> FALSE, sendCode |-> FALSE, signIn |-> FALSE, qrLogin |-> FALSE] }

\* The endpoints the callers of one run use, and the apiId values they send: a
\* phone-code login, a QR login, or a relay of files (its callers own two API
\* ids).  Every workload starts the client and lists channels.
Workloads ==
  { [name |-> "phone", apiIds |-> OneApiId,
     endpoints |-> {"start", "sendCode", "verify", "channels"}],
    [name |-> "qr", apiIds |-> OneApiId,
     endpoints |-> {"start", "qrStart", "qrStatus", "qrCancel", "channels"}],
    [name |-> "relay", apiIds |-> TwoApiIds,
     endpoints |-> {"start", "channels", "send"}] }

\* Whether the library's constructor and connect() can succeed with a missing
\* api id or hash.  gramjs's constructor throws on either.
ConnectAcceptsMissingCreds == FALSE

VARIABLES
  client,         \* let client: 0 is null, else an index into clients
  sessionString,  \* let sessionString: 0 is '', else a session key
  storedApiId,    \* let storedApiId: NullV or a number value
  storedApiHash,  \* let storedApiHash: "" is null
  phoneState,     \* const phoneState: own properties, AbsentProp where none
  qrWaiter,       \* let qrWaiter: 0 is null, else the number of the qrLogin() result
  clients,        \* every main client instance connected so far
  qrCount,        \* the qrLogin() results issued so far
  lib,            \* the methods the installed library's client has
  workload,       \* the endpoints this run's callers use
  slots,          \* the requests in flight, each at its await
  ev,             \* the segment that ran last: which handler, from where, its response
  startedOk,      \* history: some /auth/start has responded {ok:true}
  codeSent,       \* history: the phones some /auth/sendCode has responded {ok:true} for
  qrOutstanding,  \* history: a qr/start has succeeded and no qr/cancel has run since
  qrCancelled     \* history: a qr/cancel has responded, and no qr/start that
                  \* arrived after it has succeeded yet

globals == <<client, sessionString, storedApiId, storedApiHash, phoneState, qrWaiter>>
history == <<startedOk, codeSent, qrOutstanding, qrCancelled>>
env == <<clients, qrCount, lib, workload>>
vars == <<client, sessionString, storedApiId, storedApiHash, phoneState, qrWaiter,
          clients, qrCount, lib, workload, slots, ev, startedOk, codeSent, qrOutstanding,
          qrCancelled>>

Slots == 1 .. NumSlots

\* A request's locals.  calls lists the calls it has made on a client or on fs,
\* thrown those of them that threw or rejected.  stale is history: a qr/cancel
\* has run since the request arrived.
IdleReq ==
  [kind |-> "none", pc |-> "idle", phone |-> "",
   connId |-> NaNV, connHash |-> "", connSess |-> 0, cl |-> 0, q |-> 0,
   hash |-> "", files |-> 0, idx |-> 0, staged |-> {}, calls |-> <<>>,
   thrown |-> <<>>, stale |-> FALSE]

\* One call on a collaborator: the method, and the file it is about (0: none).
Call(op, f) == [op |-> op, f |-> f]

NoEvent ==
  [kind |-> "none", from |-> "init", status |-> 0, out |-> "", session |-> 0,
   err |-> "", req |-> IdleReq]

\* The lowest free slot takes the arriving request.
FreeSlot(r, kind) ==
  /\ kind \in workload.endpoints
  /\ slots[r].pc = "idle"
  /\ \A s \in Slots : s < r => slots[s].pc # "idle"

\* The segment ends at an await: the request stays in flight.
Suspend(r, rec, from) ==
  /\ slots' = [slots EXCEPT ![r] = rec]
  /\ ev' = [kind |-> rec.kind, from |-> from, status |-> 0, out |-> "",
            session |-> 0, err |-> "", req |-> rec]

\* The segment ends in res.json / res.status(..).json: the request is over.
Respond(r, rec, from, status, out, session, err) ==
  /\ slots' = [slots EXCEPT ![r] = IdleReq]
  /\ ev' = [kind |-> rec.kind, from |-> from, status |-> status, out |-> out,
            session |-> session, err |-> err, req |-> [rec EXCEPT !.pc = "done"]]

\* createClient: new StringSession(existingSession || ''), new TelegramClient,
\* connect.  A client built on a saved session holds that session's key, one
\* built on '' gets a key of its own.
NewClientFresh(n, h, existing) ==
  [apiId |-> n, apiHash |-> h, key |-> Len(clients) + 1]
NewClient(n, h, existing) ==
  [apiId |-> n, apiHash |-> h,
   key |-> IF existing # 0 THEN existing ELSE Len(clients) + 1]
CredsAccepted(n, h) ==
  ConnectAcceptsMissingCreds \/ (n.t = "number" /\ n.n # 0 /\ h # "")
ConnectMayResolve(n, h) == Len(clients) < MaxClients /\ CredsAccepted(n, h)
TmpConnectMayResolve(n, h) == CredsAccepted(n, h)

\* client.session.save(): the key the client holds.
SessionSave(cs, c) == cs[c].key

\* `!client`, the first test of sendCode, verify, channels and send.
GuardOnStoredCreds == storedApiId = NullV
NoClient == client = 0

PhoneStateGet(phone) ==
  IF phoneState[phone] # AbsentProp THEN phoneState[phone]
  ELSE IF phone \in ObjectPrototypeKeys THEN "[Function]"
  ELSE "undefined"

Init ==
  /\ client = 0
  /\ sessionString = 0
  /\ storedApiId = NullV
  /\ storedApiHash = ""
  /\ phoneState = [p \in Phones |-> AbsentProp]
  /\ qrWaiter = 0
  /\ clients = <<>>
  /\ qrCount = 0
  /\ lib \in LibBuilds
  /\ workload \in Workloads
  /\ slots = [r \in Slots |-> IdleReq]
  /\ ev = NoEvent
  /\ startedOk = FALSE
  /\ codeSent = {}
  /\ qrOutstanding = FALSE
  /\ qrCancelled = FALSE

\* ------------------------------------------------------- POST /auth/start
AuthStart(r) ==
  \E apiId \in workload.apiIds, apiHash \in ApiHashInputs :
    LET rec == [IdleReq EXCEPT !.kind = "start"] IN
    /\ FreeSlot(r, "start")
    /\ IF ~Truthy(apiId) \/ apiHash = ""
       THEN /\ Respond(r, rec, "arrive", 400, "error", 0, "apiId & apiHash required")
            /\ UNCHANGED <<storedApiId, storedApiHash>>
       ELSE /\ storedApiId' = ToNumber(apiId)
            /\ storedApiHash' = apiHash
            /\ Suspend(r, [rec EXCEPT !.pc = "start_connect",
                                       !.connId = ToNumber(apiId),
                                       !.connHash = apiHash,
                                       !.connSess = sessionString,
                                       !.calls = <<Call("connect", 0)>>], "arrive")
    /\ UNCHANGED <<client, sessionString, phoneState, qrWaiter, env, history>>

AuthStartConnected(r) ==
  LET rec == slots[r] IN
  /\ rec.pc = "start_connect"
  /\ \/ /\ ConnectMayResolve(rec.connId, rec.connHash)
        /\ clients' = Append(clients, NewClient(rec.connId, rec.connHash, rec.connSess))
        /\ client' = Len(clients) + 1
        /\ startedOk' = TRUE
        /\ Respond(r, rec, "start_connect", 200, "ok", 0, "")
     \/ /\ Respond(r, [rec EXCEPT !.thrown = rec.calls], "start_connect",
                   500, "error", 0, "connect")
        /\ UNCHANGED <<client, clients, startedOk>>
  /\ UNCHANGED <<sessionString, storedApiId, storedApiHash, phoneState, qrWaiter,
                 qrCount, lib, workload, codeSent, qrOutstanding, qrCancelled>>

\* ---------------------------------------------------- POST /auth/sendCode
AuthSendCode(r) ==
  \E phone \in PhoneInputs :
    LET rec == [IdleReq EXCEPT !.kind = "sendCode", !.phone = phone] IN
    /\ FreeSlot(r, "sendCode")
    /\ IF NoClient
       THEN Respond(r, rec, "arrive", 400, "error", 0, "client not initialized")
       ELSE IF phone = ""
       THEN Respond(r, rec, "arrive", 400, "error", 0, "phone required")
       ELSE IF lib.sendCodeRequest
       THEN Suspend(r, [rec EXCEPT !.pc = "sendCode_call",
                                   !.calls = <<Call("sendCodeRequest", 0)>>], "arrive")
       ELSE IF lib.sendCode
       THEN Suspend(r, [rec EXCEPT !.pc = "sendCode_call",
                                   !.calls = <<Call("sendCode", 0)>>], "arrive")
       ELSE Respond(r, rec, "arrive", 500, "error", 0, "TypeError")
    /\ UNCHANGED <<globals, env, history>>

AuthSendCodeReturned(r) ==
  LET rec == slots[r] IN
  /\ rec.pc = "sendCode_call"
  /\ \/ \E result \in CodeResults :
          LET phone_code_hash == ExtractHash(result) IN
          /\ phoneState' = [phoneState EXCEPT ![rec.phone] = phone_code_hash]
          /\ codeSent' = codeSent \cup {rec.phone}
          /\ Respond(r, [rec EXCEPT !.hash = phone_code_hash], "sendCode_call",
                     200, "ok", 0, "")
     \/ \* the call rejects
        /\ Respond(r, [rec EXCEPT !.thrown = rec.calls], "sendCode_call",
                   500, "error", 0, "sendCode")
        /\ UNCHANGED <<phoneState, codeSent>>
     \/ \* the call resolves with undefined, and line 79 throws
        /\ Respond(r, rec, "sendCode_call", 500, "error", 0, "TypeError")
        /\ UNCHANGED <<phoneState, codeSent>>
  /\ UNCHANGED <<client, sessionString, storedApiId, storedApiHash, qrWaiter, env,
                 startedOk, qrOutstanding, qrCancelled>>

\* ------------------------------------------------------ POST /auth/verify
AuthVerify(r) ==
  \E phone \in PhoneInputs, code \in CodeInputs :
    LET rec == [IdleReq EXCEPT !.kind = "verify", !.phone = phone]
        phone_code_hash == IF phone = "" THEN "undefined" ELSE PhoneStateGet(phone)
    IN
    /\ FreeSlot(r, "verify")
    /\ IF NoClient
       THEN Respond(r, rec, "arrive", 400, "error", 0, "client not initialized")
       ELSE IF phone = "" \/ code = ""
       THEN Respond(r, rec, "arrive", 400, "error", 0, "phone & code required")
       ELSE IF ~HashTruthy(phone_code_hash)
       THEN Respond(r, rec, "arrive", 400, "error", 0, "no phone_code_hash")
       ELSE IF lib.signIn
       THEN Suspend(r, [rec EXCEPT !.pc = "verify_A", !.cl = client,
                                   !.hash = phone_code_hash,
                                   !.calls = <<Call("signInA", 0)>>], "arrive")
       ELSE \* line 115 calls what is not a function
            Respond(r, [rec EXCEPT !.hash = phone_code_hash], "arrive",
                    500, "error", 0, "TypeError")
    /\ UNCHANGED <<globals, env, history>>

\* Lines 118-121, after either sign-in call resolved.
VerifySavedStale(r, rec, from) ==
  /\ sessionString' = SessionSave(clients, client)
  /\ Respond(r, rec, from, 200, "ok", sessionString, "")
VerifySaved(r, rec, from) ==
  /\ sessionString' = SessionSave(clients, client)
  /\ Respond(r, rec, from, 200, "ok", sessionString', "")

\* Lines 122-125: what the second sign-in call threw goes out as a 500.
VerifyFailedUnanswered(r, rec, from) ==
  /\ slots' = [slots EXCEPT ![r] = IdleReq]
  /\ ev' = [kind |-> rec.kind, from |-> from, status |-> 0, out |-> "",
            session |-> 0, err |-> "signInB", req |-> [rec EXCEPT !.pc = "rejected"]]
  /\ UNCHANGED sessionString
VerifyFailedSaving(r, rec, from) ==
  /\ sessionString' = SessionSave(clients, client)
  /\ Respond(r, rec, from, 500, "error", 0, "signInB")
VerifyFailed(r, rec, from) ==
  /\ Respond(r, rec, from, 500, "error", 0, "signInB")
  /\ UNCHANGED sessionString

\* Lines 107-113: the object-style call returned.
AuthVerifySignedInANoFallback(r) ==
  LET rec == slots[r] IN
  /\ rec.pc = "verify_A"
  /\ \/ VerifySaved(r, rec, "verify_A")
     \/ /\ Respond(r, [rec EXCEPT !.thrown = <<Call("signInA", 0)>>], "verify_A",
                   500, "error", 0, "signInA")
        /\ UNCHANGED sessionString
  /\ UNCHANGED <<client, storedApiId, storedApiHash, phoneState, qrWaiter, env,
                 history>>
AuthVerifySignedInA(r) ==
  LET rec == slots[r] IN
  /\ rec.pc = "verify_A"
  /\ \/ VerifySaved(r, rec, "verify_A")
     \/ /\ Suspend(r, [rec EXCEPT !.pc = "verify_B", !.cl = client,
                                  !.calls = Append(rec.calls, Call("signInB", 0)),
                                  !.thrown = <<Call("signInA", 0)>>],
                   "verify_A")
        /\ UNCHANGED sessionString
  /\ UNCHANGED <<client, storedApiId, storedApiHash, phoneState, qrWaiter, env,
                 history>>

\* Line 112: the positional call returned.
AuthVerifySignedInB(r) ==
  LET rec == slots[r] IN
  /\ rec.pc = "verify_B"
  /\ \/ VerifySaved(r, rec, "verify_B")
     \/ VerifyFailed(r, [rec EXCEPT !.thrown = Append(rec.thrown, Call("signInB", 0))],
                     "verify_B")
  /\ UNCHANGED <<client, storedApiId, storedApiHash, phoneState, qrWaiter, env,
                 history>>

\* ---------------------------------------------------- POST /auth/qr/start
AuthQrStart(r) ==
  \E apiId \in workload.apiIds, apiHash \in ApiHashInputs :
    LET rec == [IdleReq EXCEPT !.kind = "qrStart"] IN
    /\ FreeSlot(r, "qrStart")
    /\ IF ~Truthy(apiId) \/ apiHash = ""
       THEN Respond(r, rec, "arrive", 400, "error", 0, "apiId & apiHash required")
       ELSE Suspend(r, [rec EXCEPT !.pc = "qrStart_connect",
                                   !.connId = ToNumber(apiId),
                                   !.connHash = apiHash,
                                   !.connSess = 0,
                                   !.calls = <<Call("connect", 0)>>], "arrive")
    /\ UNCHANGED <<globals, env, history>>

\* tmpClient is a client of its own: it never enters clients, the main ones.
AuthQrStartConnectedUntested(r) ==
  LET rec == slots[r] IN
  /\ rec.pc = "qrStart_connect"
  /\ \/ /\ TmpConnectMayResolve(rec.connId, rec.connHash)
        /\ Suspend(r, [rec EXCEPT !.pc = "qrStart_qrLogin",
                                  !.calls = Append(rec.calls, Call("qrLogin", 0))],
                   "qrStart_connect")
     \/ Respond(r, [rec EXCEPT !.thrown = rec.calls], "qrStart_connect",
                500, "error", 0, "connect")
  /\ UNCHANGED <<globals, env, history>>
AuthQrStartConnected(r) ==
  LET rec == slots[r] IN
  /\ rec.pc = "qrStart_connect"
  /\ \/ /\ TmpConnectMayResolve(rec.connId, rec.connHash)
        /\ IF ~lib.qrLogin
           THEN Suspend(r, [rec EXCEPT !.pc = "qrStart_disconnect",
                                       !.calls = Append(rec.calls, Call("disconnect", 0))],
                        "qrStart_connect")
           ELSE Suspend(r, [rec EXCEPT !.pc = "qrStart_qrLogin",
                                       !.calls = Append(rec.calls, Call("qrLogin", 0))],
                        "qrStart_connect")
     \/ Respond(r, [rec EXCEPT !.thrown = rec.calls], "qrStart_connect",
                500, "error", 0, "connect")
  /\ UNCHANGED <<globals, env, history>>

AuthQrStartDisconnected(r) ==
  LET rec == slots[r] IN
  /\ rec.pc = "qrStart_disconnect"
  /\ \/ Respond(r, rec, "qrStart_disconnect", 501, "error", 0, "QR login not supported")
     \/ Respond(r, [rec EXCEPT !.thrown = <<Call("disconnect", 0)>>],
                "qrStart_disconnect", 500, "error", 0, "disconnect")
  /\ UNCHANGED <<globals, env, history>>

AuthQrStartToken(r) ==
  LET rec == slots[r] IN
  /\ rec.pc = "qrStart_qrLogin"
  /\ \/ /\ qrCount < MaxQr
        /\ qrCount' = qrCount + 1
        /\ qrWaiter' = qrCount + 1
        /\ qrOutstanding' = TRUE
        /\ qrCancelled' = (qrCancelled /\ rec.stale)
        /\ Respond(r, [rec EXCEPT !.q = qrCount + 1], "qrStart_qrLogin", 200, "ok", 0, "")
     \/ \* qrLogin rejects
        /\ Respond(r, [rec EXCEPT !.thrown = <<Call("qrLogin", 0)>>],
                   "qrStart_qrLogin", 500, "error", 0, "qrLogin")
        /\ UNCHANGED <<qrWaiter, qrCount, qrOutstanding, qrCancelled>>
     \/ \* its result has no token, and line 151 throws
        /\ Respond(r, rec, "qrStart_qrLogin", 500, "error", 0, "TypeError")
        /\ UNCHANGED <<qrWaiter, qrCount, qrOutstanding, qrCancelled>>
  /\ UNCHANGED <<client, sessionString, storedApiId, storedApiHash, phoneState, clients,
                 lib, workload, startedOk, codeSent>>

\* ---------------------------------------------------- GET /auth/qr/status
AuthQrStatus(r) ==
  LET rec == [IdleReq EXCEPT !.kind = "qrStatus"] IN
  /\ FreeSlot(r, "qrStatus")
  /\ IF qrWaiter = 0
     THEN Respond(r, rec, "arrive", 200, "notLoggedIn", 0, "")
     ELSE Suspend(r, [rec EXCEPT !.pc = "qrStatus_wait", !.q = qrWaiter,
                                 !.calls = <<Call("wait", 0)>>], "arrive")
  /\ UNCHANGED <<globals, env, history>>

\* Lines 177-179: the race rejected (the timer's 'pending', or wait()'s own
\* rejection), or createClient threw: the inner catch answers.
QrStatusPendingExpires(r, rec, from, e) ==
  /\ Respond(r, [rec EXCEPT !.thrown = <<rec.calls[Len(rec.calls)]>>], from,
             200, "notLoggedIn", 0, e)
  /\ qrWaiter' = 0
  /\ UNCHANGED <<client, sessionString, clients>>
QrStatusPending(r, rec, from, e) ==
  /\ Respond(r, [rec EXCEPT !.thrown = <<rec.calls[Len(rec.calls)]>>], from,
             200, "notLoggedIn", 0, e)
  /\ UNCHANGED <<client, sessionString, clients, qrWaiter>>

AuthQrStatusWaited(r) ==
  LET rec == slots[r] IN
  /\ rec.pc = "qrStatus_wait"
  /\ \/ \* wait() resolved before the timer
        IF client = 0
        THEN /\ Suspend(r, [rec EXCEPT !.pc = "qrStatus_connect",
                                       !.connId = ToNumber(storedApiId),
                                       !.connHash = storedApiHash,
                                       !.connSess = 0,
                                       !.calls = Append(rec.calls, Call("connect", 0))],
                        "qrStatus_wait")
             /\ UNCHANGED <<client, sessionString, clients, qrWaiter>>
        ELSE /\ sessionString' = SessionSave(clients, client)
             /\ Respond(r, rec, "qrStatus_wait", 200, "loggedIn", 0, "")
             /\ UNCHANGED <<client, clients, qrWaiter>>
     \/ \E e \in {"pending", "wait"} : QrStatusPending(r, rec, "qrStatus_wait", e)
  /\ UNCHANGED <<storedApiId, storedApiHash, phoneState, qrCount, lib, workload, history>>

AuthQrStatusConnected(r) ==
  LET rec == slots[r] IN
  /\ rec.pc = "qrStatus_connect"
  /\ \/ /\ ConnectMayResolve(rec.connId, rec.connHash)
        /\ clients' = Append(clients, NewClient(rec.connId, rec.connHash, rec.connSess))
        /\ client' = Len(clients) + 1
        /\ sessionString' = SessionSave(clients', client')
        /\ Respond(r, rec, "qrStatus_connect", 200, "loggedIn", 0, "")
        /\ UNCHANGED qrWaiter
     \/ QrStatusPending(r, rec, "qrStatus_connect", "connect")
  /\ UNCHANGED <<storedApiId, storedApiHash, phoneState, qrCount, lib, workload, history>>

\* --------------------------------------------------- POST /auth/qr/cancel
\* The handler has no await: it runs whole, whatever else is in flight.
GlobalsRec ==
  [client |-> client, sessionString |-> sessionString, storedApiId |-> storedApiId,
   storedApiHash |-> storedApiHash, phoneState |-> phoneState, qrWaiter |-> qrWaiter]

\* Line 187, as a function of the module-level variables.
QrCancelKeepsWaiter(g) == g
QrCancelLogsOut(g) == [g EXCEPT !.qrWaiter = 0, !.sessionString = 0]
QrCancelState(g) == [g EXCEPT !.qrWaiter = 0]

AuthQrCancel ==
  LET g == QrCancelState(GlobalsRec) IN
  /\ "qrCancel" \in workload.endpoints
  /\ client' = g.client
  /\ sessionString' = g.sessionString
  /\ storedApiId' = g.storedApiId
  /\ storedApiHash' = g.storedApiHash
  /\ phoneState' = g.phoneState
  /\ qrWaiter' = g.qrWaiter
  /\ qrOutstanding' = FALSE
  /\ qrCancelled' = TRUE
  /\ slots' = [r \in Slots |->
                 IF slots[r].kind \in {"qrStart", "qrStatus"}
                 THEN [slots[r] EXCEPT !.stale = TRUE]
                 ELSE slots[r]]
  /\ ev' = [kind |-> "qrCancel", from |-> "arrive", status |-> 200, out |-> "ok",
            session |-> 0, err |-> "",
            req |-> [IdleReq EXCEPT !.kind = "qrCancel", !.pc = "done"]]
  /\ UNCHANGED <<env, startedOk, codeSent>>

\* ---------------------------------------------------------- GET /channels
Channels(r) ==
  LET rec == [IdleReq EXCEPT !.kind = "channels"] IN
  /\ FreeSlot(r, "channels")
  /\ IF NoClient
     THEN Respond(r, rec, "arrive", 400, "error", 0, "not logged in")
     ELSE Suspend(r, [rec EXCEPT !.pc = "channels_call",
                                 !.calls = <<Call("getDialogs", 0)>>], "arrive")
  /\ UNCHANGED <<globals, env, history>>

ChannelsReturned(r) ==
  LET rec == slots[r] IN
  /\ rec.pc = "channels_call"
  /\ \/ Respond(r, rec, "channels_call", 200, "channels", 0, "")
     \/ Respond(r, [rec EXCEPT !.thrown = rec.calls], "channels_call",
                500, "error", 0, "getDialogs")
  /\ UNCHANGED <<globals, env, history>>

\* -------------------------------------------------------------- POST /send
\* upload.array('files') has staged the request's files before the handler runs.
Send(r) ==
  \E channelId \in ChannelInputs, n \in 0 .. MaxFiles :
    LET rec == [IdleReq EXCEPT !.kind = "send", !.files = n, !.staged = 1 .. n]
    IN
    /\ FreeSlot(r, "send")
    /\ IF NoClient
       THEN Respond(r, rec, "arrive", 400, "error", 0, "not logged in")
       ELSE IF channelId = ""
       THEN Respond(r, rec, "arrive", 400, "error", 0, "channelId required")
       ELSE IF n = 0
       THEN Respond(r, rec, "arrive", 200, "sent", 0, "")
       ELSE Suspend(r, [rec EXCEPT !.pc = "send_file", !.idx = 1,
                                   !.calls = <<Call("sendFile", 1)>>], "arrive")
    /\ UNCHANGED <<globals, env, history>>

\* Line 231, the finally block of file rec.idx: unlinkSync removes the file,
\* or throws into the empty catch and the file stays.
Unlink(rec, removed) ==
  [rec EXCEPT !.staged = IF removed THEN rec.staged \ {rec.idx} ELSE rec.staged,
              !.calls = Append(rec.calls, Call("unlinkSync", rec.idx)),
              !.thrown = IF removed THEN rec.thrown
                         ELSE Append(rec.thrown, Call("unlinkSync", rec.idx))]

\* The finally block of file rec.idx, then the loop's next turn or line 234.
SendNextOnlyFirst(r, rec, from) ==
  \E removed \in BOOLEAN :
    Respond(r, Unlink(rec, removed), from, 200, "sent", 0, "")
SendNext(r, rec, from) ==
  \E removed \in BOOLEAN :
    LET done == Unlink(rec, removed) IN
    IF rec.idx = rec.files
    THEN Respond(r, done, from, 200, "sent", 0, "")
    ELSE Suspend(r, [done EXCEPT !.pc = "send_file", !.idx = rec.idx + 1,
                                 !.calls = Append(done.calls, Call("sendFile", rec.idx + 1))],
                 from)

SendFileReturned(r) ==
  LET rec == slots[r] IN
  /\ rec.pc = "send_file"
  /\ \/ SendNext(r, rec, "send_file")
     \/ Suspend(r, [rec EXCEPT !.pc = "send_message",
                               !.calls = Append(rec.calls, Call("sendMessage", rec.idx)),
                               !.thrown = Append(rec.thrown, Call("sendFile", rec.idx))],
                "send_file")
  /\ UNCHANGED <<globals, env, history>>

\* The fallback with its failure caught inside the loop: the loop goes on.
SendMessageReturnedContinues(r) ==
  LET rec == slots[r] IN
  /\ rec.pc = "send_message"
  /\ \/ SendNext(r, rec, "send_message")
     \/ SendNext(r, [rec EXCEPT !.thrown = Append(rec.thrown, Call("sendMessage", rec.idx))],
                 "send_message")
  /\ UNCHANGED <<globals, env, history>>
\* The fallback without the finally block: its failure goes straight to line 236.
SendMessageReturnedNoFinally(r) ==
  LET rec == slots[r] IN
  /\ rec.pc = "send_message"
  /\ \/ SendNext(r, rec, "send_message")
     \/ Respond(r, [rec EXCEPT !.thrown = Append(rec.thrown, Call("sendMessage", rec.idx))],
                "send_message", 500, "error", 0, "sendMessage")
  /\ UNCHANGED <<globals, env, history>>
SendMessageReturned(r) ==
  LET rec == slots[r] IN
  /\ rec.pc = "send_message"
  /\ \/ SendNext(r, rec, "send_message")
     \/ \E removed \in BOOLEAN :
          Respond(r, Unlink([rec EXCEPT !.thrown = Append(rec.thrown,
                                                          Call("sendMessage", rec.idx))],
                            removed),
                  "send_message", 500, "error", 0, "sendMessage")
  /\ UNCHANGED <<globals, env, history>>

\* ------------------------------------------------------------------ system
Next ==
  \/ \E r \in Slots :
       \/ AuthStart(r)
       \/ AuthStartConnected(r)
       \/ AuthSendCode(r)
       \/ AuthSendCodeReturned(r)
       \/ AuthVerify(r)
       \/ AuthVerifySignedInA(r)
       \/ AuthVerifySignedInB(r)
       \/ AuthQrStart(r)
       \/ AuthQrStartConnected(r)
       \/ AuthQrStartDisconnected(r)
       \/ AuthQrStartToken(r)
       \/ AuthQrStatus(r)
       \/ AuthQrStatusWaited(r)
       \/ AuthQrStatusConnected(r)
       \/ Channels(r)
       \/ ChannelsReturned(r)
       \/ Send(r)
       \/ SendFileReturned(r)
       \/ SendMessageReturned(r)
  \/ AuthQrCancel

Spec == Init /\ [][Next]_vars

\* What the event loop runs for the request in slot r once the promise it
\* awaits has settled (the setTimeout of line 171 settles the race of qr/status
\* after a second at the latest).
Continue(r) ==
  \/ AuthStartConnected(r)
  \/ AuthSendCodeReturned(r)
  \/ AuthVerifySignedInA(r)
  \/ AuthVerifySignedInB(r)
  \/ AuthQrStartConnected(r)
  \/ AuthQrStartDisconnected(r)
  \/ AuthQrStartToken(r)
  \/ AuthQrStatusWaited(r)
  \/ AuthQrStatusConnected(r)
  \/ ChannelsReturned(r)
  \/ SendFileReturned(r)
  \/ SendMessageReturned(r)

\* Every call on the client returns or throws in the end, and the event loop
\* then resumes the handler that awaits it.
FairSpec == Spec /\ \A r \in Slots : WF_vars(Continue(r))

\* ------------------------------------------------------------------ claims
\* The endpoints whose handlers begin with the `!client` test.
Guarded == {"sendCode", "verify", "channels", "send"}
\* The segment that ran last took a request of one of these kinds from its
\* arrival to its first await or to its response.
Arrived(kinds) == ev.kind \in kinds /\ ev.from = "arrive"
Refused400 == ev.status = 400 /\ ev.out = "error" /\ ev.req.calls = <<>>

\* C1, as stated: while no /auth/start has responded {ok:true}, a sendCode,
\* verify, channels or send request is answered 400 and calls nothing on the
\* client.
C1_NoStartMeans400 == (Arrived(Guarded) /\ ~startedOk) => Refused400

\* C1, amended: while there is no client (client is null), a sendCode, verify,
\* channels or send request is answered 400 and calls nothing on the client.
C1_NoClientMeans400 == (Arrived(Guarded) /\ client = 0) => Refused400

\* A guarded request was refused although a start had already remembered its
\* credentials (it failed, or is still connecting).
C1_Witness ==
  /\ Arrived(Guarded)
  /\ client = 0
  /\ storedApiId # NullV
  /\ Refused400

\* C2, as stated: a verify for a phone no sendCode has responded {ok:true} for
\* is answered 400 and never calls signIn.
C2_VerifyNeedsSendCode ==
  (Arrived({"verify"}) /\ ev.req.phone \notin codeSent) => Refused400

\* C3: a verify segment that does not respond {ok:true} leaves sessionString as
\* it was; verify writes it only in the segment that responds {ok:true}.
C3_FailedVerifyKeepsSession ==
  [][(ev'.kind = "verify" /\ ~(ev'.status = 200 /\ ev'.out = "ok"))
       => sessionString' = sessionString]_vars

\* A verify failed with 500 after both sign-in calls threw, while a session
\* saved by an earlier login was held.
C3_Witness ==
  /\ ev.kind = "verify"
  /\ ev.status = 500
  /\ ev.req.thrown = <<Call("signInA", 0), Call("signInB", 0)>>
  /\ sessionString # 0

\* C4: when verify responds {ok:true, session}, session is the sessionString
\* held at that moment, and it is what the client's session.save() gives.
C4_VerifyReturnsSavedSession ==
  (ev.kind = "verify" /\ ev.status = 200)
    => /\ ev.out = "ok"
       /\ ev.session = sessionString
       /\ client # 0
       /\ ev.session = clients[client].key

\* A verify responded {ok:true} with the session of the second client that a
\* start had connected.
C4_Witness ==
  /\ ev.kind = "verify"
  /\ ev.status = 200
  /\ ev.session = 2

SignInA == Call("signInA", 0)
SignInB == Call("signInB", 0)
\* The segment that ran last belongs to a verify that got past its three guards.
VerifyPastGuards == ev.kind = "verify" /\ ~(ev.from = "arrive" /\ ev.status = 400)
\* Shape A first and once; shape B once, and only after A threw; the answer is
\* {ok:true} unless both threw, and then a 500 carrying B's failure.
TwoShapeSignIn ==
  LET c == ev.req.calls
      t == ev.req.thrown
  IN
  /\ c \in {<<SignInA>>, <<SignInA, SignInB>>}
  /\ t \in {<<>>, <<SignInA>>, <<SignInA, SignInB>>}
  /\ c = <<SignInA, SignInB>> <=> t # <<>>
  /\ ev.status \in {0, 200, 500}
  /\ ev.status = 0 => t # <<SignInA, SignInB>>
  /\ ev.status = 200 => ev.out = "ok" /\ t # <<SignInA, SignInB>>
  /\ ev.status = 500 => t = <<SignInA, SignInB>> /\ ev.err = "signInB"

\* C5, as stated: every verify past its guards (here: one whose phone has had
\* its sendCode) attempts shape A exactly once, shape B exactly once if and
\* only if A threw and never before A, succeeds if either succeeds, responds
\* 500 with B's failure if both throw, and makes no more than two signIn calls.
C5_AlwaysTwoShapes ==
  (VerifyPastGuards /\ ev.req.phone \in codeSent) => TwoShapeSignIn

\* C5, amended: that holds when client.signIn is a function; when it is not,
\* a verify past its guards makes no signIn call at all and responds 500.
C5_TwoShapesWhenSignInExists ==
  VerifyPastGuards =>
    IF lib.signIn
    THEN TwoShapeSignIn
    ELSE ev.req.calls = <<>> /\ ev.status = 500 /\ ev.err = "TypeError"

\* A verify succeeded on shape B after shape A threw.
C5_Witness ==
  /\ ev.kind = "verify"
  /\ ev.from = "verify_B"
  /\ ev.status = 200
  /\ ev.req.calls = <<SignInA, SignInB>>
  /\ ev.req.thrown = <<SignInA>>

\* C6, as stated: sendCode responds {ok:true} only when a hash was found in the
\* result and recorded for the phone.
C6_OkOnlyWithHash ==
  (ev.kind = "sendCode" /\ ev.status = 200)
    => HashTruthy(ev.req.hash) /\ phoneState[ev.req.phone] = ev.req.hash

\* C7: a qr/status arriving while no QR attempt is outstanding responds
\* {loggedIn:false} with no error, calls nothing and changes no server state.
C7_StatusWhenIdle ==
  [][(ev'.kind = "qrStatus" /\ ev'.from = "arrive" /\ ~qrOutstanding)
       => /\ ev'.status = 200
          /\ ev'.out = "notLoggedIn"
          /\ ev'.err = ""
          /\ ev'.req.calls = <<>>
          /\ UNCHANGED <<globals, clients, qrCount, slots, history>>]_vars

\* A qr/status was answered {loggedIn:false} after a qr/cancel had dropped an
\* attempt that a qr/start had made.
C7_Witness ==
  /\ Arrived({"qrStatus"})
  /\ ev.out = "notLoggedIn"
  /\ qrCount > 0
  /\ ~qrOutstanding

\* The request's wait() resolved before the poll timer.
WaitConfirmed(rec) ==
  /\ \E i \in 1 .. Len(rec.calls) : rec.calls[i] = Call("wait", 0)
  /\ \A i \in 1 .. Len(rec.thrown) : rec.thrown[i] # Call("wait", 0)

\* C8, as stated: a qr/status whose wait() confirmed within the timeout
\* responds {loggedIn:true}, and then the main client exists and sessionString
\* is the session saved from it.
C8_ConfirmedMeansLoggedIn ==
  (ev.kind = "qrStatus" /\ ev.status # 0 /\ WaitConfirmed(ev.req))
    => /\ ev.out = "loggedIn"
       /\ client # 0
       /\ sessionString = clients[client].key

\* C9: a qr/status whose wait() did not confirm (the timer fired first, or
\* wait() rejected) responds {loggedIn:false} and leaves qrWaiter, client and
\* sessionString as they were.
C9_UnconfirmedPollChangesNothing ==
  [][(ev'.kind = "qrStatus" /\ ev'.from = "qrStatus_wait" /\ ev'.status # 0
        /\ ~WaitConfirmed(ev'.req))
       => /\ ev'.status = 200
          /\ ev'.out = "notLoggedIn"
          /\ UNCHANGED <<qrWaiter, client, sessionString>>]_vars

\* A poll timed out and the attempt it polled is still the pending one.
C9_Witness ==
  /\ ev.kind = "qrStatus"
  /\ ev.err = "pending"
  /\ ev.out = "notLoggedIn"
  /\ qrWaiter # 0
  /\ ev.req.q = qrWaiter

\* C10: qr/cancel can always be served; it responds {ok:true}, leaves qrWaiter
\* null and client, sessionString, the remembered credentials and phoneState
\* as they were; and a second qr/cancel right after it would change nothing.
C10_CancelOnlyIdles ==
  /\ [](("qrCancel" \in workload.endpoints) => ENABLED AuthQrCancel)
  /\ [][ev'.kind = "qrCancel"
          => /\ ev'.status = 200
             /\ ev'.out = "ok"
             /\ qrWaiter' = 0
             /\ UNCHANGED <<client, sessionString, storedApiId, storedApiHash,
                            phoneState>>
             /\ QrCancelState(GlobalsRec') = GlobalsRec']_vars

\* A qr/cancel was served while a session from a QR login was held.
C10_Witness ==
  /\ ev.kind = "qrCancel"
  /\ ev.status = 200
  /\ qrWaiter = 0
  /\ qrCount > 0
  /\ sessionString # 0

\* The request's createClient resolved: it holds a freshly connected client.
TmpClientCreated(rec) ==
  /\ rec.calls # <<>>
  /\ rec.calls[1] = Call("connect", 0)
  /\ \A i \in 1 .. Len(rec.thrown) : rec.thrown[i] # Call("connect", 0)

\* C11, as stated: a qr/start that got its fresh client responds 501 exactly
\* when that client has no qrLogin.
C11_501ExactlyWhenNoQrLogin ==
  (ev.kind = "qrStart" /\ ev.status # 0 /\ TmpClientCreated(ev.req))
    => (ev.status = 501 <=> ~lib.qrLogin)

\* C11, amended: qr/start responds 501 only when its fresh client has no
\* qrLogin, and then it responds 501 unless disconnect() throws, which is a 500;
\* every segment that does not respond {ok:true} leaves qrWaiter, client,
\* sessionString, the remembered credentials and phoneState as they were; the
\* one that responds {ok:true} puts its own qrLogin() result in qrWaiter; and
\* none changes client or sessionString.
C11_QrStartFailuresChangeNothing ==
  [][ev'.kind = "qrStart"
       => /\ ev'.status = 501 => (~lib.qrLogin /\ TmpClientCreated(ev'.req))
          /\ (ev'.status # 0 /\ TmpClientCreated(ev'.req) /\ ~lib.qrLogin)
               => \/ ev'.status = 501
                  \/ ev'.status = 500 /\ ev'.err = "disconnect"
          /\ ev'.status \in {0, 200, 400, 500, 501}
          /\ ev'.status # 200 => UNCHANGED globals
          /\ ev'.status = 200
               => ev'.out = "ok" /\ ev'.req.q # 0 /\ qrWaiter' = ev'.req.q
          /\ UNCHANGED <<client, sessionString, storedApiId, storedApiHash,
                         phoneState>>]_vars

\* A qr/start was answered 501 while a main client was held.
C11_Witness ==
  /\ ev.kind = "qrStart"
  /\ ev.status = 501
  /\ client # 0
  /\ storedApiId # NullV

\* Where call c stands in a request's calls (0: it was not made), and whether
\* it threw.
CallAt(rec, c) ==
  IF \E i \in 1 .. Len(rec.calls) : rec.calls[i] = c
  THEN CHOOSE i \in 1 .. Len(rec.calls) : rec.calls[i] = c
  ELSE 0
Called(rec, c) == CallAt(rec, c) # 0
Threw(rec, c) == \E i \in 1 .. Len(rec.thrown) : rec.thrown[i] = c

\* The send request has left file i behind: it has begun the next file, or has
\* responded.
FileLeft(i) ==
  /\ Called(ev.req, Call("sendFile", i))
  /\ ev.status # 0 \/ Called(ev.req, Call("sendFile", i + 1))

\* unlinkSync(i) was called once, after the send attempts of file i and before
\* anything of file i + 1.
UnlinkedInTurn(i) ==
  LET u == CallAt(ev.req, Call("unlinkSync", i)) IN
  /\ u > CallAt(ev.req, Call("sendFile", i))
  /\ u > CallAt(ev.req, Call("sendMessage", i))
  /\ Called(ev.req, Call("sendFile", i + 1))
       => u < CallAt(ev.req, Call("sendFile", i + 1))
  /\ Cardinality({k \in 1 .. Len(ev.req.calls) :
                    ev.req.calls[k] = Call("unlinkSync", i)}) = 1

\* C12, as stated: once a send request has left a file whose sendFile it began,
\* that file's temporary storage is gone.
C12_AttemptedFilesAreDeleted ==
  ev.kind = "send"
    => \A i \in 1 .. MaxFiles : FileLeft(i) => i \notin ev.req.staged

\* C12, amended: once a send request has left a file whose sendFile it began,
\* it has called unlinkSync on that file, after the file's send attempts and
\* before the next file's, whichever of them threw; the file is gone unless
\* that unlinkSync itself threw.
C12_AttemptedFilesAreUnlinked ==
  ev.kind = "send"
    => \A i \in 1 .. MaxFiles :
         FileLeft(i)
           => /\ UnlinkedInTurn(i)
              /\ i \in ev.req.staged <=> Threw(ev.req, Call("unlinkSync", i))

\* sendFile of file 1 threw, its sendMessage delivered it, and file 1 was
\* removed before sendFile of file 2 began.
C12_Witness ==
  /\ ev.kind = "send"
  /\ ev.status = 0
  /\ ev.req.idx = 2
  /\ Threw(ev.req, Call("sendFile", 1))
  /\ ~Threw(ev.req, Call("sendMessage", 1))
  /\ 1 \notin ev.req.staged

\* File i of the request went out: by sendFile, or by sendMessage after
\* sendFile threw.
Delivered(rec, i) ==
  /\ Called(rec, Call("sendFile", i))
  /\ \/ ~Threw(rec, Call("sendFile", i))
     \/ Called(rec, Call("sendMessage", i)) /\ ~Threw(rec, Call("sendMessage", i))
AllDelivered(rec) == \A i \in 1 .. rec.files : Delivered(rec, i)

\* The calls of the request that delivered a file, and the files of its
\* unlinkSync calls that threw.
Deliveries(rec) ==
  {k \in 1 .. Len(rec.calls) :
     /\ rec.calls[k].op \in {"sendFile", "sendMessage"}
     /\ ~Threw(rec, rec.calls[k])}
UnlinkThrew(rec) == {i \in 1 .. rec.files : Threw(rec, Call("unlinkSync", i))}

\* One delivery per file, file by file in the request's order, each file's
\* unlinkSync between its delivery and the next file's sendFile.
DeliveredInOrder(rec) ==
  /\ Cardinality(Deliveries(rec)) = rec.files
  /\ \A i \in 1 .. rec.files :
       /\ Delivered(rec, i)
       /\ CallAt(rec, Call("sendFile", i)) < CallAt(rec, Call("unlinkSync", i))
       /\ CallAt(rec, Call("sendMessage", i)) < CallAt(rec, Call("unlinkSync", i))
       /\ Called(rec, Call("sendMessage", i))
            => CallAt(rec, Call("sendFile", i)) < CallAt(rec, Call("sendMessage", i))
       /\ i < rec.files
            => CallAt(rec, Call("unlinkSync", i)) < CallAt(rec, Call("sendFile", i + 1))
  /\ rec.files = 0 => rec.calls = <<>>

\* A send request past its two guards has responded.
SendAnswered == ev.kind = "send" /\ ev.status \notin {0, 400}

\* C13, as stated: a send past its guards, every file of which was delivered,
\* responds {status:"sent"} after one delivery per file in request order, and
\* none of its temporary files is left; with no file it calls nothing.
C13_AllDeliveredAllDeleted ==
  (SendAnswered /\ AllDelivered(ev.req))
    => /\ ev.status = 200 /\ ev.out = "sent"
       /\ DeliveredInOrder(ev.req)
       /\ ev.req.staged = {}

\* C13, amended: the same, except that the temporary files left are exactly
\* those whose unlinkSync threw; and {status:"sent"} is the answer only when
\* every file was delivered.
C13_AllDeliveredAllUnlinked ==
  /\ (SendAnswered /\ AllDelivered(ev.req))
       => /\ ev.status = 200 /\ ev.out = "sent"
          /\ DeliveredInOrder(ev.req)
          /\ ev.req.staged = UnlinkThrew(ev.req)
  /\ (SendAnswered /\ ev.status = 200) => AllDelivered(ev.req)

\* Two files were sent, the first by the sendMessage fallback, and both removed.
C13_Witness ==
  /\ SendAnswered
  /\ ev.status = 200
  /\ ev.req.files = 2
  /\ Threw(ev.req, Call("sendFile", 1))
  /\ ev.req.staged = {}

\* C15: when sendFile and the sendMessage fallback both threw for a file, the
\* send request responds 500 in that segment, every file before it was
\* delivered, and no sendFile or sendMessage is made for a file after it.
C15_FailingFileAbortsBatch ==
  ev.kind = "send"
    => \A i \in 1 .. MaxFiles :
         (Threw(ev.req, Call("sendFile", i)) /\ Threw(ev.req, Call("sendMessage", i)))
           => /\ ev.status = 500 /\ ev.out = "error" /\ ev.err = "sendMessage"
              /\ \A j \in 1 .. i - 1 : Delivered(ev.req, j)
              /\ \A j \in i + 1 .. MaxFiles :
                   /\ ~Called(ev.req, Call("sendFile", j))
                   /\ ~Called(ev.req, Call("sendMessage", j))
                   /\ ~Called(ev.req, Call("unlinkSync", j))

\* Both calls threw for the first of two files: the second was never tried.
C15_Witness ==
  /\ ev.kind = "send"
  /\ ev.status = 500
  /\ ev.req.files = 2
  /\ Threw(ev.req, Call("sendFile", 1))
  /\ Threw(ev.req, Call("sendMessage", 1))
  /\ 2 \in ev.req.staged

\* C14: a request in flight is answered in the end, whatever its calls throw;
\* a request leaves its handler only in a segment that responds, and that
\* segment responds to it alone; a segment that does not respond leaves its
\* request in flight at an await (qr/cancel, with no await, always responds).
C14_OneResponsePerRequest ==
  /\ \A r \in Slots : (slots[r].pc # "idle") ~> (slots[r].pc = "idle")
  /\ [][ /\ \A r \in Slots :
            (slots[r].pc # "idle" /\ slots'[r].pc = "idle")
              => /\ ev'.status # 0
                 /\ ev'.req.kind = slots[r].kind
                 /\ ev'.from = slots[r].pc
                 /\ \A q \in Slots \ {r} :
                      (slots'[q].pc = "idle") <=> (slots[q].pc = "idle")
         /\ ev'.status # 0
              => /\ ev'.req.pc = "done"
                 /\ \A r \in Slots : slots'[r].pc = "idle" \/ slots[r].pc # "idle"
                 /\ (ev'.from # "arrive")
                      => \E r \in Slots : slots[r].pc = ev'.from /\ slots'[r].pc = "idle"
         /\ ev'.status = 0
              => \E r \in Slots : slots'[r] = ev'.req /\ slots'[r].pc # "idle"
         /\ ev'.kind = "qrCancel" => ev'.status = 200]_vars

\* A request was answered 500 after two of its calls had thrown, and nothing
\* is left in flight.
C14_Witness ==
  /\ ev.status = 500
  /\ Len(ev.req.thrown) >= 2
  /\ \A r \in Slots : slots[r].pc = "idle"

\* C16: a start past its validation hands createClient the sessionString held
\* when the request arrived, and the client it installs holds that session (a
\* session of its own when there was none); a start that responds 400 or 500
\* leaves client as it was; no segment of start changes sessionString,
\* phoneState or qrWaiter.
C16_StartReusesSession ==
  [][ev'.kind = "start"
       => /\ UNCHANGED <<sessionString, phoneState, qrWaiter>>
          /\ (ev'.from = "arrive" /\ ev'.status = 0)
               => /\ ev'.req.connSess = sessionString
                  /\ ev'.req.calls = <<Call("connect", 0)>>
          /\ (ev'.from = "arrive" /\ ev'.status # 0)
               => ev'.status = 400 /\ ev'.req.calls = <<>>
          /\ ev'.status # 200 => UNCHANGED <<client, clients>>
          /\ ev'.status = 200
               => /\ client' = Len(clients')
                  /\ Len(clients') = Len(clients) + 1
                  /\ clients'[client'].apiId = ev'.req.connId
                  /\ clients'[client'].apiHash = ev'.req.connHash
                  /\ clients'[client'].key =
                       IF ev'.req.connSess # 0 THEN ev'.req.connSess ELSE client'
          /\ ev'.status \in {0, 200, 400, 500}]_vars

\* A start reconnected with the session an earlier login had saved.
C16_Witness ==
  /\ ev.kind = "start"
  /\ ev.status = 200
  /\ ev.req.connSess # 0
  /\ ev.req.connSess = sessionString
  /\ clients[client].key = sessionString
  /\ client = 2

\* C17, as stated: the session a successful verify (here: one for a phone that
\* has had its sendCode) stores and returns is the one saved from the client
\* its successful signIn call was made on.
C17_SessionOfSignedInClient ==
  (ev.kind = "verify" /\ ev.status = 200 /\ ev.req.phone \in codeSent)
    => /\ ev.session = SessionSave(clients, ev.req.cl)
       /\ sessionString = SessionSave(clients, ev.req.cl)

StartInFlight == \E r \in Slots : slots[r].kind = "start"

\* C18, as stated: while a client exists and no start is in flight, the
\* remembered credentials are non-null and are those the client was created
\* with.
C18_StoredCredsAreClientCreds ==
  (client # 0 /\ ~StartInFlight)
    => /\ storedApiId # NullV
       /\ storedApiHash # ""
       /\ storedApiId = clients[client].apiId
       /\ storedApiHash = clients[client].apiHash

\* C19, as stated: from a qr/cancel's response until a qr/start that arrived
\* after it succeeds, qrWaiter stays null, no qr/status answers
\* {loggedIn:true}, and no segment of qr/start or qr/status changes client or
\* sessionString.
C19_CancelStopsQrFlow ==
  /\ [](qrCancelled => qrWaiter = 0)
  /\ [][(qrCancelled /\ ev'.kind \in {"qrStart", "qrStatus"})
          => /\ ev'.out # "loggedIn"
             /\ UNCHANGED <<client, sessionString>>]_vars

\* C20, as stated: when a send request is answered, with 200, 400 or 500, none
\* of the files staged for it is left.
C20_NoStagedFileLeft ==
  (ev.kind = "send" /\ ev.status # 0) => ev.req.staged = {}

====
